---- MODULE Spec2Model ----
(***************************************************************************)
(* A model of freshext.py, the FreshRSS extension manager: the catalog     *)
(* (extensions.json), the extensions directory, the scratch clones under   *)
(* PKG_TMP_DIR, the source repositories, and the commands install,         *)
(* upgrade, list, update and clean.  One command runs at a time; install   *)
(* is broken into one step per external operation (git clone / fetch /     *)
(* checkout, copytree, whoami, sudo, chown).                               *)
(***************************************************************************)
EXTENDS Integers, Sequences, FiniteSets, TLC

(***************************************************************************)
(* Python values read from JSON: None (also a missing optional key), a     *)
(* string, or a number.  All three share one record shape so that any two  *)
(* can be compared; a number never equals a string, as in Python.          *)
(***************************************************************************)
None == [t |-> "none", s |-> "", n |-> 0]

Str(s) == [t |-> "str", s |-> s, n |-> 0]

Num(n) == [t |-> "num", s |-> "", n |-> n]

\* Python truthiness: None, "" and 0 are falsy.
Truthy(v) ==
    CASE v.t = "none" -> FALSE
      [] v.t = "str"  -> v.s # ""
      [] v.t = "num"  -> v.n # 0

Digits == <<"0", "1", "2", "3", "4", "5", "6", "7", "8", "9">>

\* str(n) of a one-digit int.
py_str(n) == Digits[n + 1]

\* f'{v}': the text Python formats a value to.
py_format(v) ==
    CASE v.t = "none" -> "None"
      [] v.t = "str"  -> v.s
      [] v.t = "num"  -> py_str(v.n)

EXT_META == "metadata.json"

EXT_MAIN == "extension.php"

COMMON_WEB_SERVER_USERS == <<"www-data", "httpd", "www", "apache">>

(***************************************************************************)
(* Metadata: the descriptor record.  raw is the content of a metadata.json *)
(* file: json = "absent" (no file) or "dict", a JSON object with the four   *)
(* fields the program reads (None for a key that is missing or null).      *)
(***************************************************************************)
RawMeta(name, entrypoint, version, type) ==
    [json |-> "dict", name |-> name, entrypoint |-> entrypoint,
     version |-> version, type |-> type]

NoFile == [json |-> "absent", name |-> None, entrypoint |-> None,
           version |-> None, type |-> None]

MetaError == [ok |-> FALSE, name |-> None, entrypoint |-> None,
              version |-> None, type |-> None]

\* Metadata.__post_init__, lines 65-67: a numeric version becomes its string,
\* under the guard "if self.version".
MetaVersion(v) ==
    IF Truthy(v) THEN (IF v.t = "num" THEN Str(py_str(v.n)) ELSE v) ELSE v

\* Metadata(**r_json): the two assertions, then the version.
Metadata(raw) ==
    IF raw.json # "dict" THEN MetaError
    ELSE IF ~(Truthy(raw.name) /\ Truthy(raw.entrypoint)) THEN MetaError
    ELSE IF Truthy(raw.type) /\ raw.type \notin {Str("system"), Str("user")}
         THEN MetaError
    ELSE [ok |-> TRUE, name |-> raw.name, entrypoint |-> raw.entrypoint,
          version |-> MetaVersion(raw.version), type |-> raw.type]

(***************************************************************************)
(* Names.  A directory name is a sequence of tokens, so that "starts with  *)
(* xExtension-" and "the part before the first dot" are computed.          *)
(***************************************************************************)
FOO == <<"foo">>

BAR == <<"xExtension-", "Bar">>

DirNames == {FOO, BAR}

ROOT == <<>>

(***************************************************************************)
(* A directory of the extensions folder, or a subdirectory of a source     *)
(* tree: the descriptor file, the main file (0 = absent), one further file *)
(* (0 = absent) and, for an installed directory, its owner.                *)
(***************************************************************************)
Dir(meta, main, extra) ==
    [kind |-> "dir", meta |-> meta, main |-> main, extra |-> extra,
     owner |-> "orig"]

NoDir == [kind |-> "none", meta |-> NoFile, main |-> 0, extra |-> 0,
          owner |-> "orig"]

\* (Path(dir) / name).exists()
Exists(d, name) ==
    /\ d.kind = "dir"
    /\ CASE name = EXT_META -> d.meta.json # "absent"
         [] name = EXT_MAIN -> d.main # 0
         [] OTHER -> d.extra # 0

\* read_local_meta, lines 152-156: open, json.load, Metadata(**r_json).
read_local_meta(d) ==
    IF Exists(d, EXT_META) THEN Metadata(d.meta) ELSE MetaError

(***************************************************************************)
(* The catalog.  An entry carries the fields the program reads; url is the *)
(* source repository and the path of the URL, split at "/" and each        *)
(* segment split at ".".                                                   *)
(***************************************************************************)
Entry(name, version, entrypoint, url, method, directory) ==
    [name |-> name, version |-> version, entrypoint |-> entrypoint,
     url |-> url, method |-> method, directory |-> directory]

\* https://git.example/foo.git
UrlFoo == [repo |-> "foo", path |-> << <<"">>, <<"foo", "git">> >>]

\* https://git.example/foo.git/ : the same repository, spelled with a slash
UrlFooSlash == [repo |-> "foo", path |-> << <<"">>, <<"foo", "git">>, <<"">> >>]

\* https://github.com/FreshRSS/Extensions
UrlExt == [repo |-> "ext", path |-> << <<"">>, <<"FreshRSS">>, <<"Extensions">> >>]

RepoIds == {"foo", "ext"}

\* url_path.removesuffix('/'), line 130
RemoveSuffixSlash(path) ==
    IF Len(path) >= 2 /\ path[Len(path)] = <<"">>
    THEN SubSeq(path, 1, Len(path) - 1)
    ELSE path

\* Repo._generate_pkg_name, lines 128-133
generate_pkg_name(url, directory) ==
    IF Len(directory) > 0 /\ directory[1] = "xExtension-"
    THEN directory
    ELSE LET p == RemoveSuffixSlash(url.path)
         IN  << Head(p[Len(p)]) >>

\* The empty string as a name.
IsEmpty(n) == n = <<>> \/ n = <<"">>

\* The directory of the extensions folder called n (NoDir when there is none).
LocalDir(fsys, n) == IF n \in DOMAIN fsys THEN fsys[n] ELSE NoDir

\* Repo._set_installed_flag, lines 109-117
set_installed_flag(d) == Exists(d, EXT_META) /\ Exists(d, EXT_MAIN)

\* Repo.__post_init__, lines 103-104: a numeric version becomes its string.
RepoVersion(v) == IF v.t = "num" THEN Str(py_str(v.n)) ELSE v

RepoError ==
    [ok |-> FALSE, name |-> "", version |-> None, entrypoint |-> "",
     url |-> UrlFoo, method |-> "", directory |-> ROOT, pkg_name |-> <<"">>,
     installed |-> FALSE, installed_version |-> None]

\* Repo(**repo), lines 100-107 with 119-125: the package name, the installed
\* flag, the version, and the installed version read from the local
\* descriptor, whose parse can fail.
Repo(e, fsys) ==
    LET pkg == generate_pkg_name(e.url, e.directory)
        d   == LocalDir(fsys, pkg)
        m   == Metadata(d.meta)
    IN  IF IsEmpty(pkg) THEN RepoError
        ELSE IF set_installed_flag(d) /\ ~m.ok THEN RepoError
        ELSE [ok |-> TRUE, name |-> e.name, version |-> RepoVersion(e.version),
              entrypoint |-> e.entrypoint, url |-> e.url, method |-> e.method,
              directory |-> e.directory, pkg_name |-> pkg,
              installed |-> set_installed_flag(d),
              installed_version |->
                  IF set_installed_flag(d) THEN m.version ELSE None]

\* extensions.json: absent, or a format version and the entries.
Catalog(version, extensions) ==
    [present |-> TRUE, version |-> version, extensions |-> extensions]

NoCatalog == [present |-> FALSE, version |-> "", extensions |-> <<>>]

\* The entries of the filtered list, line 148.  With several entries of one
\* package name the list keeps them all.
FilterRepos(repos, filter) ==
    LET Keep(r) == r.pkg_name = filter
    IN  IF IsEmpty(filter) THEN repos ELSE SelectSeq(repos, Keep)

\* (variant: the entries are constructed before the format version is looked
\* at)
read_pkg_reposParseFirst(cat, fsys, filter) ==
    LET all   == [i \in 1..Len(cat.extensions) |-> Repo(cat.extensions[i], fsys)]
        bad   == {i \in 1..Len(all) : ~all[i].ok}
        first == CHOOSE i \in bad : \A j \in bad : i <= j
        repos == FilterRepos(all, filter)
    IN  IF ~cat.present
        THEN [err |-> "NoCatalog", repos |-> <<>>, parsed |-> 0]
        ELSE IF bad # {}
             THEN [err |-> "Validation", repos |-> <<>>, parsed |-> first]
        ELSE IF cat.version # "0.1"
             THEN [err |-> "SchemaVersion", repos |-> <<>>, parsed |-> Len(all)]
        ELSE IF repos = <<>>
             THEN [err |-> "NotFound", repos |-> <<>>, parsed |-> Len(all)]
        ELSE [err |-> "", repos |-> repos, parsed |-> Len(all)]

\* read_pkg_repos, lines 135-150: err = "" and the list, or the error of the
\* first assertion or constructor that fails; parsed is the number of
\* entries Repo(**repo) was called on, the list comprehension of line 146
\* ending at the first entry that raises.
read_pkg_repos(cat, fsys, filter) ==
    LET all   == [i \in 1..Len(cat.extensions) |-> Repo(cat.extensions[i], fsys)]
        bad   == {i \in 1..Len(all) : ~all[i].ok}
        first == CHOOSE i \in bad : \A j \in bad : i <= j
        repos == FilterRepos(all, filter)
    IN  IF ~cat.present
        THEN [err |-> "NoCatalog", repos |-> <<>>, parsed |-> 0]
        ELSE IF cat.version # "0.1"
             THEN [err |-> "SchemaVersion", repos |-> <<>>, parsed |-> 0]
        ELSE IF bad # {}
             THEN [err |-> "Validation", repos |-> <<>>, parsed |-> first]
        ELSE IF repos = <<>>
             THEN [err |-> "NotFound", repos |-> <<>>, parsed |-> Len(all)]
        ELSE [err |-> "", repos |-> repos, parsed |-> Len(all)]

(***************************************************************************)
(* The catalogs the update command can download.                           *)
(***************************************************************************)
EntryFoo(version) == Entry("Foo", version, "Foo", UrlFoo, "git", ROOT)

EntryBar(version, method) == Entry("Bar", version, "Bar", UrlExt, method, BAR)

CatOne == Catalog("0.1", << EntryFoo(Str("1.0")) >>)

CatTwo == Catalog("0.1", << EntryFoo(Str("1.1")), EntryBar(Num(0), "git") >>)

\* a duplicated registry: two entries of package foo
CatDup ==
    Catalog("0.1", << EntryFoo(Str("1.0")),
                      Entry("Foo", Str("1.1"), "Foo", UrlFooSlash, "git", ROOT) >>)

CatNewSchema == Catalog("0.2", << EntryFoo(Str("1.0")) >>)

CatZip == Catalog("0.1", << EntryBar(Num(2), "zip"), EntryFoo(Num(2)) >>)

Catalogs == {CatOne, CatTwo, CatDup, CatNewSchema, CatZip}

(***************************************************************************)
(* Source trees and refs.  A tree gives, for each sourceSubdirectory, the  *)
(* directory found there.  A repository (and a scratch clone) maps ref     *)
(* names to trees, "" meaning that the ref does not exist.                 *)
(***************************************************************************)
MetaFoo(version) == RawMeta(Str("Foo"), Str("Foo"), version, Str("user"))

MetaBar(version) == RawMeta(Str("Bar"), Str("Bar"), version, None)

\* a descriptor of Foo whose entrypoint is not the one the catalog gives
MetaFooNg == RawMeta(Str("Foo"), Str("FooNg"), Str("2"), Str("user"))

\* a descriptor without a name
MetaNoName == RawMeta(None, Str("Foo"), Str("1.0"), None)

\* a descriptor of an invalid type
MetaBadType == RawMeta(Str("Loc"), Str("Loc"), Str("1.0"), Str("plugin"))

Tree(t) ==
    CASE t = "T1" -> (ROOT :> Dir(MetaFoo(Str("1.0")), 1, 0)
                      @@ BAR :> Dir(MetaBar(Num(0)), 1, 0))
      [] t = "T2" -> (ROOT :> Dir(MetaFoo(Str("1.1")), 2, 1)
                      @@ BAR :> Dir(MetaBar(Num(2)), 1, 0))
      [] t = "T3" -> (ROOT :> Dir(MetaNoName, 1, 0) @@ BAR :> NoDir)
      [] t = "T4" -> (ROOT :> Dir(MetaFoo(Num(2)), 0, 1)
                      @@ BAR :> Dir(MetaBar(Str("2")), 1, 0))
      [] t = "T5" -> (ROOT :> Dir(MetaFooNg, 3, 0) @@ BAR :> NoDir)

TreeNames == {"T1", "T2", "T3", "T4", "T5"}

Ref(p, v) == [p |-> p, v |-> v]

HEAD == Ref("origin/HEAD", "")

VersionTexts == {"1.0", "1.1", "0", "2"}

AllRefs ==
    {Ref(p, v) : p \in {"v", "", "origin/", "origin/v"}, v \in VersionTexts}
    \cup {HEAD}

NoRefs == [r \in AllRefs |-> ""]

\* the tree a ref names in a ref map ("" when there is no such ref)
RefTree(refs, r) == IF r \in DOMAIN refs THEN refs[r] ELSE ""

\* (variant: origin/v{version} is tried before origin/{version})
CandidatesSwapped(version) ==
    << Ref("v", py_format(version)), Ref("", py_format(version)),
       Ref("origin/v", py_format(version)), Ref("origin/", py_format(version)),
       HEAD >>

\* the ref candidates of line 233, in the order of the list
Candidates(version) ==
    << Ref("v", py_format(version)), Ref("", py_format(version)),
       Ref("origin/", py_format(version)), Ref("origin/v", py_format(version)),
       HEAD >>

(***************************************************************************)
(* git.  A clone takes the refs of the repository; a fetch brings the      *)
(* remote-tracking refs up to date and adds the tags the clone does not    *)
(* have, leaving the tags and local branches it has.                       *)
(***************************************************************************)
IsRemoteTracking(r) == r.p \in {"origin/", "origin/v", "origin/HEAD"}

\* (variant: git clone --single-branch --no-tags, the command of the comment
\* at line 220: only the default branch is cloned)
CloneRefsSingleBranch(rem) == [r \in AllRefs |-> IF r = HEAD THEN rem[r] ELSE ""]

\* git clone <url> <dest>, line 223
CloneRefs(rem) == rem

\* (variant: a fetch that prunes the tags and local branches of the clone)
FetchRefsPruned(old, rem) ==
    [r \in AllRefs |->
        IF IsRemoteTracking(r)
        THEN (IF rem[r] # "" THEN rem[r] ELSE old[r])
        ELSE ""]

\* git fetch in the scratch clone, line 228

FetchRefs(old, rem) ==
    [r \in AllRefs |->
        IF IsRemoteTracking(r)
        THEN (IF rem[r] # "" THEN rem[r] ELSE old[r])
        ELSE (IF old[r] # "" THEN old[r] ELSE rem[r])]

\* git checkout --quiet --force <ref>: the return code, 0 iff the ref resolves
CheckoutRc(refs, r) == IF RefTree(refs, r) # "" THEN 0 ELSE 1

\* the directory at sourceSubdirectory of tree t
SubTree(t, directory) ==
    IF t # "" /\ directory \in DOMAIN Tree(t) THEN Tree(t)[directory] ELSE NoDir

\* (variant: the destination is replaced by the source tree, a file that is
\* not in the source being removed)
MirrorCopy(dst, src) ==
    [kind  |-> "dir", meta  |-> src.meta, main  |-> src.main,
     extra |-> src.extra, owner |-> dst.owner]

\* shutil.copytree(src, dst, dirs_exist_ok=True), line 247: the destination is
\* created if needed, every file of src overwrites the file of that name,
\* the other files of dst stay.
MergeCopy(dst, src) ==
    [kind  |-> "dir",
     meta  |-> IF src.meta.json # "absent" THEN src.meta ELSE dst.meta,
     main  |-> IF src.main # 0 THEN src.main ELSE dst.main,
     extra |-> IF src.extra # 0 THEN src.extra ELSE dst.extra,
     owner |-> dst.owner]

\* a copytree that raises after copying only the files in done
PartialCopy(dst, src, done) ==
    [kind  |-> "dir",
     meta  |-> IF EXT_META \in done /\ src.meta.json # "absent"
               THEN src.meta ELSE dst.meta,
     main  |-> IF EXT_MAIN \in done /\ src.main # 0 THEN src.main ELSE dst.main,
     extra |-> dst.extra,
     owner |-> dst.owner]

\* the files of a directory, without its owner
Content(d) == [kind |-> d.kind, meta |-> d.meta, main |-> d.main, extra |-> d.extra]

(***************************************************************************)
(* The state.                                                              *)
(*   catalog  extensions.json                                              *)
(*   fs       the extensions folder: the directory of each name           *)
(*   cache    PKG_TMP_DIR: the scratch clone of each package name          *)
(*   remote   the refs of each source repository                           *)
(*   pc, cmd  the running command and its position; perm: the identity of  *)
(*            the process, once set_permissions has read it                *)
(*   ops      the external operations of the running (or last) command     *)
(*   result   how the last command ended; report: what list printed        *)
(*   last     the previous install, when the running one repeats it        *)
(*   ncmd     the number of commands and outside changes so far            *)
(***************************************************************************)
VARIABLES catalog, fs, cache, remote, pc, cmd, perm, ops, result, report, last, ncmd

vars == <<catalog, fs, cache, remote, pc, cmd, perm, ops, result, report, last, ncmd>>

MaxCmds == 2

NoScratch == [state |-> "absent", config |-> FALSE, refs |-> NoRefs, wt |-> ""]

NoLast == [valid |-> FALSE, pkg |-> <<"">>, exist_ok |-> FALSE,
           meta |-> MetaError, dir |-> Content(NoDir)]

\* The running command.  For install: the package, exist_ok, the catalog entry
\* (repo), the loop index i, the packages a batch has still to install, and
\* what the install found on entry and did: the target directory (before),
\* the scratch clone (cache0), the number of operations already logged
\* (from), the previous install when this one repeats it (prev), the
\* descriptor read back (meta) and the directory as verified (verified).
NoCmd == [action |-> "", pkg |-> <<"">>, exist_ok |-> FALSE, repo |-> RepoError,
          i |-> 0, queue |-> <<>>, before |-> NoDir, cache0 |-> NoScratch,
          from |-> 0, prev |-> NoLast, meta |-> MetaError,
          verified |-> Content(NoDir)]

NoPerm == [user |-> "", root |-> FALSE, sudo |-> ""]

\* How the last command ended, with its command record.
NoResult == [status |-> "none", err |-> "", advice |-> "", cmd |-> NoCmd]

NoReport == [done |-> FALSE, upgradable |-> <<>>, installed |-> <<>>,
             local_only |-> <<>>]

NoRef == Ref("", "")

Op(op, pkg, ref, user, rc) ==
    [op |-> op, pkg |-> pkg, ref |-> ref, user |-> user, rc |-> rc]

\* The identities a run can have: the account whoami prints, whether the
\* effective uid is 0, and what "sudo -n whoami" does ("absent": there is
\* no sudo executable, and subprocess.run raises FileNotFoundError).
Identities ==
    {[user |-> "www-data", root |-> FALSE, sudo |-> "ok"],
     [user |-> "root", root |-> TRUE, sudo |-> "ok"],
     [user |-> "root", root |-> TRUE, sudo |-> "absent"],
     [user |-> "alice", root |-> FALSE, sudo |-> "ok"],
     [user |-> "alice", root |-> FALSE, sudo |-> "denied"],
     [user |-> "alice", root |-> FALSE, sudo |-> "absent"]}

\* The states of the two source repositories.
RemoteFoo ==
    {NoRefs,
     [NoRefs EXCEPT ![Ref("", "2")] = "T5", ![HEAD] = "T2"],
     [NoRefs EXCEPT ![Ref("v", "1.0")] = "T1", ![Ref("", "1.1")] = "T2",
                    ![Ref("origin/v", "2")] = "T4", ![HEAD] = "T2"],
     [NoRefs EXCEPT ![Ref("origin/", "1.0")] = "T1", ![Ref("v", "1.1")] = "T1",
                    ![Ref("", "1.1")] = "T2", ![HEAD] = "T3"]}

RemoteExt ==
    {[NoRefs EXCEPT ![HEAD] = "T1"],
     [NoRefs EXCEPT ![Ref("", "0")] = "T1", ![Ref("v", "2")] = "T4",
                    ![HEAD] = "T2"]}

\* What a user can put at a name of the extensions folder by hand.
MetaLoc == RawMeta(Str("Loc"), Str("Loc"), Num(2), Str("system"))

UserDirs ==
    {NoDir,
     Dir(NoFile, 0, 0),
     Dir(MetaNoName, 1, 0),
     Dir(MetaFoo(Str("1.0")), 0, 2),
     Dir(MetaFoo(Str("1.0")), 1, 2),
     Dir(MetaLoc, 1, 0)}

\* The extensions folder at the start: empty, or holding an older Foo with a
\* file of its own beside a directory whose descriptor does not parse.
InitFolders ==
    {[n \in DirNames |-> NoDir],
     (FOO :> Dir(MetaFoo(Str("1.0")), 1, 2) @@ BAR :> Dir(MetaBadType, 0, 0))}

Init ==
    /\ catalog \in Catalogs \cup {NoCatalog}
    /\ fs \in InitFolders
    /\ cache = [n \in DirNames |-> NoScratch]
    /\ remote \in [RepoIds -> RemoteFoo \cup RemoteExt]
    /\ remote["foo"] \in RemoteFoo
    /\ remote["ext"] \in RemoteExt
    /\ pc = "idle"
    /\ cmd = NoCmd
    /\ perm = NoPerm
    /\ ops = <<>>
    /\ result = NoResult
    /\ report = NoReport
    /\ last = NoLast
    /\ ncmd = 0

(***************************************************************************)
(* install, lines 212-252, one step per external operation.                *)
(***************************************************************************)
\* the command record on entry to install(pkg, exist_ok); queue holds the
\* packages a batch command still has to install after this one
EnterInstall(action, pkg, exist_ok, queue, fsys, from, prev) ==
    [action |-> action, pkg |-> pkg, exist_ok |-> exist_ok, repo |-> RepoError,
     i |-> 0, queue |-> queue, before |-> LocalDir(fsys, pkg),
     cache0 |-> cache[pkg], from |-> from,
     prev |-> IF prev.valid /\ prev.pkg = pkg THEN prev ELSE NoLast,
     meta |-> MetaError, verified |-> Content(NoDir)]

\* (variant: a batch catches the exception of one package and goes on with
\* the next)
AbortIsolated(err) ==
    /\ result' = [status |-> "error", err |-> err, advice |-> "", cmd |-> cmd]
    /\ last' = NoLast
    /\ perm' = NoPerm
    /\ IF cmd.queue # <<>>
       THEN /\ pc' = "install"
            /\ cmd' = EnterInstall(cmd.action, Head(cmd.queue), cmd.exist_ok,
                                   Tail(cmd.queue), fs, Len(ops), NoLast)
       ELSE /\ pc' = "idle"
            /\ cmd' = NoCmd

\* an exception reaches the top of main: the command, a batch included, ends
Abort(err) ==
    /\ pc' = "idle"
    /\ result' = [status |-> "error", err |-> err, advice |-> "", cmd |-> cmd]
    /\ cmd' = NoCmd
    /\ perm' = NoPerm
    /\ last' = NoLast

\* install returns: the next package of a batch, or the end of the command
Finish(fsys, id, advice) ==
    /\ result' = [status |-> "ok", err |-> "", advice |-> advice, cmd |-> cmd]
    /\ last' = [valid |-> TRUE, pkg |-> cmd.pkg, exist_ok |-> cmd.exist_ok,
                meta |-> cmd.meta, dir |-> Content(LocalDir(fsys, cmd.pkg))]
    /\ IF cmd.queue # <<>>
       THEN /\ pc' = "install"
            /\ cmd' = EnterInstall(cmd.action, Head(cmd.queue), cmd.exist_ok,
                                   Tail(cmd.queue), fsys, Len(ops'), NoLast)
            /\ perm' = id
       ELSE /\ pc' = "idle"
            /\ cmd' = NoCmd
            /\ perm' = NoPerm

\* read_pkg_repos(pkg_name)[0], line 216
PickRepo(repos) == repos[1]

\* (variant: the precondition uses the installed flag, which needs both files)
AlreadyInstalledByFlag(exist_ok, d) == ~exist_ok /\ set_installed_flag(d)

\* line 214: the precondition of install(pkg_name, exist_ok)
AlreadyInstalled(exist_ok, d) == ~exist_ok /\ Exists(d, EXT_META)

\* (variant: every fetch method is taken for git)
MethodSupportedAny(repo) == TRUE

\* line 218: only git repos are supported
MethodSupported(repo) == repo.method = "git"

\* lines 213-218: the precondition, the catalog entry, the method
InstallBegin ==
    /\ pc = "install"
    /\ LET r == read_pkg_repos(catalog, fs, cmd.pkg)
       IN  IF AlreadyInstalled(cmd.exist_ok, LocalDir(fs, cmd.pkg))
           THEN Abort("AlreadyInstalled") /\ ops' = ops
           ELSE /\ ops' = Append(ops, Op("read_catalog", cmd.pkg, NoRef, "", 0))
                /\ IF r.err # "" THEN Abort(r.err)
                   ELSE IF ~MethodSupported(PickRepo(r.repos))
                        THEN Abort("UnsupportedMethod")
                   ELSE /\ pc' = "clone_or_fetch"
                        /\ cmd' = [cmd EXCEPT !.repo = PickRepo(r.repos)]
                        /\ UNCHANGED <<perm, result, last>>
    /\ UNCHANGED <<catalog, fs, cache, remote, report, ncmd>>

\* line 222: (PKG_TMP_DIR / pkg_name / ".git" / "config").exists()
ScratchCloned(c) == c.config

\* lines 222-230.  git clone refuses a destination that exists and is not
\* empty; a clone or fetch can fail, or the process can be killed in it, a
\* killed clone leaving a partial directory with or without .git/config.
CloneOrFetch ==
    /\ pc = "clone_or_fetch"
    /\ LET p   == cmd.pkg
           c   == cache[p]
           rem == remote[cmd.repo.url.repo]
       IN  IF ~ScratchCloned(c)
           THEN \/ /\ c.state = "absent"
                   /\ cache' = [cache EXCEPT ![p] =
                          [state |-> "ok", config |-> TRUE,
                           refs |-> CloneRefs(rem), wt |-> rem[HEAD]]]
                   /\ ops' = Append(ops, Op("clone", p, NoRef, "", 0))
                   /\ pc' = "checkout"
                   /\ cmd' = [cmd EXCEPT !.i = 1]
                   /\ UNCHANGED <<perm, result, last>>
                \/ /\ cache' = cache
                   /\ ops' = Append(ops, Op("clone", p, NoRef, "", 1))
                   /\ Abort("External")
                \/ /\ c.state = "absent"
                   /\ \E cfg \in BOOLEAN :
                          cache' = [cache EXCEPT ![p] =
                              [state |-> "partial", config |-> cfg,
                               refs |-> NoRefs, wt |-> ""]]
                   /\ ops' = Append(ops, Op("clone", p, NoRef, "", 1))
                   /\ Abort("Interrupted")
           ELSE \/ /\ cache' = [cache EXCEPT ![p] =
                          [state |-> "ok", config |-> TRUE,
                           refs |-> FetchRefs(c.refs, rem), wt |-> c.wt]]
                   /\ ops' = Append(ops, Op("fetch", p, NoRef, "", 0))
                   /\ pc' = "checkout"
                   /\ cmd' = [cmd EXCEPT !.i = 1]
                   /\ UNCHANGED <<perm, result, last>>
                \/ /\ cache' = cache
                   /\ ops' = Append(ops, Op("fetch", p, NoRef, "", 1))
                   /\ \E e \in {"External", "Interrupted"} : Abort(e)
    /\ UNCHANGED <<catalog, fs, remote, report, ncmd>>

\* lines 233-241: one checkout of the loop; after the last candidate the
\* assertion on checkout_success
Checkout ==
    /\ pc = "checkout"
    /\ LET p  == cmd.pkg
           r  == Candidates(cmd.repo.version)[cmd.i]
           rc == CheckoutRc(cache[p].refs, r)
       IN  /\ ops' = Append(ops, Op("checkout", p, r, "", rc))
           /\ IF rc = 0
              THEN /\ cache' = [cache EXCEPT ![p].wt = RefTree(cache[p].refs, r)]
                   /\ pc' = "cached_meta"
                   /\ UNCHANGED <<cmd, perm, result, last>>
              ELSE /\ cache' = cache
                   /\ IF cmd.i < Len(Candidates(cmd.repo.version))
                      THEN /\ cmd' = [cmd EXCEPT !.i = cmd.i + 1]
                           /\ UNCHANGED <<pc, perm, result, last>>
                      ELSE Abort("VersionResolution")
    /\ UNCHANGED <<catalog, fs, remote, report, ncmd>>

\* (variant: the descriptor of the scratch clone is not checked)
CachedMetaUnchecked(d) == TRUE

\* line 242: the descriptor of the checked-out tree must parse
CachedMetaOk(d) == read_local_meta(d).ok

CachedMeta ==
    /\ pc = "cached_meta"
    /\ IF CachedMetaOk(SubTree(cache[cmd.pkg].wt, cmd.repo.directory))
       THEN pc' = "copy" /\ UNCHANGED <<cmd, perm, result, last>>
       ELSE Abort("Validation")
    /\ ops' = Append(ops, Op("read_cached_meta", cmd.pkg, NoRef, "",
           IF read_local_meta(SubTree(cache[cmd.pkg].wt, cmd.repo.directory)).ok
           THEN 0 ELSE 1))
    /\ UNCHANGED <<catalog, fs, cache, remote, report, ncmd>>

\* lines 246-248: copytree, which can raise part way
Copy ==
    /\ pc = "copy"
    /\ LET p   == cmd.pkg
           src == SubTree(cache[p].wt, cmd.repo.directory)
       IN  \/ /\ fs' = [fs EXCEPT ![p] = MergeCopy(fs[p], src)]
              /\ ops' = Append(ops, Op("copy", p, NoRef, "", 0))
              /\ pc' = "verify"
              /\ UNCHANGED <<cmd, perm, result, last>>
           \/ /\ \E done \in {{}, {EXT_META}, {EXT_MAIN}} :
                     fs' = [fs EXCEPT ![p] = PartialCopy(fs[p], src, done)]
              /\ ops' = Append(ops, Op("copy", p, NoRef, "", 1))
              /\ Abort("OSError")
    /\ UNCHANGED <<catalog, cache, remote, report, ncmd>>

\* (variant: set_permissions is called whether or not the descriptor could
\* be read back)
VerifyUnchecked ==
    /\ pc = "verify"
    /\ LET m == read_local_meta(fs[cmd.pkg])
       IN  /\ \E rc \in {0, 1} :
                 ops' = Append(ops, Op("read_meta", cmd.pkg, NoRef, "", rc))
           /\ pc' = "perm"
           /\ cmd' = [cmd EXCEPT !.meta = m, !.verified = Content(fs[cmd.pkg])]
           /\ UNCHANGED <<perm, result, last>>
    /\ UNCHANGED <<catalog, fs, cache, remote, report, ncmd>>

\* lines 249-251: the descriptor of the installed directory is read back; the
\* read can fail on the file (open raises) as well as on its content
Verify ==
    /\ pc = "verify"
    /\ LET m == read_local_meta(fs[cmd.pkg])
       IN  \/ /\ ops' = Append(ops, Op("read_meta", cmd.pkg, NoRef, "",
                                        IF m.ok THEN 0 ELSE 1))
              /\ IF m.ok
                 THEN /\ pc' = "perm"
                      /\ cmd' = [cmd EXCEPT !.meta = m,
                                            !.verified = Content(fs[cmd.pkg])]
                      /\ UNCHANGED <<perm, result, last>>
                 ELSE Abort("Validation")
           \/ /\ ops' = Append(ops, Op("read_meta", cmd.pkg, NoRef, "", 1))
              /\ Abort("OSError")
    /\ UNCHANGED <<catalog, fs, cache, remote, report, ncmd>>

(***************************************************************************)
(* set_permissions, lines 288-312.                                         *)
(***************************************************************************)
\* is_common_web_server_user, lines 270-272
is_common_web_server_user(user) == user \in {"www-data", "httpd", "www", "apache"}

\* sudo_available, lines 266-268
sudo_available(id) == id.sudo = "ok"

\* line 304: the owner and group chown_r is called with, user being the
\* account whoami printed and user_ the candidate of the loop
ChownOwner(user, user_) == user

\* lines 289-290: os.geteuid() (logged with rc 0 for uid 0) and whoami
WhoOps(p, id) ==
    << Op("geteuid", p, NoRef, "", IF id.root THEN 0 ELSE 1),
       Op("whoami", p, NoRef, id.user, 0) >>

\* lines 289-298: geteuid, whoami, the web-server test, sudo -n whoami.  The
\* identity is read from the environment on the first install of a command.
PermStart ==
    /\ pc = "perm"
    /\ \E id \in (IF perm = NoPerm THEN Identities ELSE {perm}) :
          IF is_common_web_server_user(id.user)
          THEN /\ ops' = ops \o WhoOps(cmd.pkg, id)
               /\ Finish(fs, id, "none")
          ELSE /\ ops' = Append(ops \o WhoOps(cmd.pkg, id),
                                Op("sudo", cmd.pkg, NoRef, id.user,
                                   IF sudo_available(id) THEN 0 ELSE 1))
               /\ IF id.sudo = "absent" THEN Abort("OSError")
                  ELSE IF sudo_available(id) \/ id.root
                       THEN /\ pc' = "chown"
                            /\ cmd' = [cmd EXCEPT !.i = 1]
                            /\ perm' = id
                            /\ UNCHANGED <<result, last>>
                  ELSE Finish(fs, id, "manual")
    /\ UNCHANGED <<catalog, fs, cache, remote, report, ncmd>>

\* lines 300-309 with chown_r, lines 255-260: one ownership change of the
\* loop; chown's return code is the environment's
Chown ==
    /\ pc = "chown"
    /\ \E rc \in {0, 1} :
          LET p     == cmd.pkg
              owner == ChownOwner(perm.user, COMMON_WEB_SERVER_USERS[cmd.i])
              newfs == [fs EXCEPT ![p].owner = owner]
          IN  /\ ops' = Append(ops, Op("chown", p, NoRef, owner, rc))
              /\ IF rc = 0
                 THEN fs' = newfs /\ Finish(newfs, perm, "changed")
                 ELSE /\ fs' = fs
                      /\ IF cmd.i < Len(COMMON_WEB_SERVER_USERS)
                         THEN /\ cmd' = [cmd EXCEPT !.i = cmd.i + 1]
                              /\ UNCHANGED <<pc, perm, result, last>>
                         ELSE Finish(fs, perm, "manual")
    /\ UNCHANGED <<catalog, cache, remote, report, ncmd>>

(***************************************************************************)
(* get_installed_exts and list_repos, lines 158-201.                       *)
(***************************************************************************)
\* os.listdir() lists in no fixed order; the model takes this one
DirOrder == <<FOO, BAR>>

\* lines 160-167: every directory with a descriptor file is parsed, and a
\* parse that raises ends the scan
get_installed_exts(fsys) ==
    LET HasMeta(n) == Exists(fsys[n], EXT_META)
        dirs  == SelectSeq(DirOrder, HasMeta)
        metas == [i \in 1..Len(dirs) |-> read_local_meta(fsys[dirs[i]])]
    IN  IF \E i \in 1..Len(metas) : ~metas[i].ok
        THEN [err |-> TRUE, metas |-> <<>>]
        ELSE [err |-> FALSE, metas |-> metas]

\* line 183
update_avail(repo) == repo.installed /\ repo.installed_version # repo.version

\* line 199
local_only(metas, repos) ==
    LET Unmatched(m) == ~\E i \in 1..Len(repos) : m.entrypoint = Str(repos[i].entrypoint)
    IN  SelectSeq(metas, Unmatched)

(***************************************************************************)
(* main, lines 314-357: the commands, and what happens between commands.   *)
(***************************************************************************)
Start ==
    /\ pc = "idle"
    /\ ncmd < MaxCmds
    /\ ncmd' = ncmd + 1
    /\ ops' = <<>>
    /\ last' = NoLast

\* the command ends at once with an error
EndError(action, err, pkg) ==
    /\ pc' = "idle"
    /\ cmd' = NoCmd
    /\ result' = [status |-> "error", err |-> err, advice |-> "",
                  cmd |-> [NoCmd EXCEPT !.action = action, !.pkg = pkg]]

\* the command ends at once, done
EndOk(action) ==
    /\ pc' = "idle"
    /\ cmd' = NoCmd
    /\ result' = [status |-> "ok", err |-> "", advice |-> "",
                  cmd |-> [NoCmd EXCEPT !.action = action]]

\* install <pkg_name>, line 338
CmdInstall(p) ==
    /\ Start
    /\ report' = NoReport
    /\ pc' = "install"
    /\ cmd' = EnterInstall("install", p, FALSE, <<>>, fs, 0, last)
    /\ result' = NoResult
    /\ UNCHANGED <<catalog, fs, cache, remote, perm>>

\* line 347: the test upgrade <pkg_name> makes before install(.., exist_ok=True)
UpgradeAllowed(fsys, p) == LocalDir(fsys, p).kind # "none"

\* upgrade <pkg_name>, lines 346-348
CmdUpgrade(p) ==
    /\ Start
    /\ report' = NoReport
    /\ IF UpgradeAllowed(fs, p)
       THEN /\ pc' = "install"
            /\ cmd' = EnterInstall("upgrade", p, TRUE, <<>>, fs, 0, last)
            /\ result' = NoResult
       ELSE EndError("upgrade", "NotInstalled", p)
    /\ UNCHANGED <<catalog, fs, cache, remote, perm>>

\* the package names of a list of repos
PkgNames(repos) == [i \in 1..Len(repos) |-> repos[i].pkg_name]

\* (variant: install all installs every entry of the catalog)
NotInstalledAny(repos) == repos

\* line 333: the repos install all installs
NotInstalled(repos) == LET Keep(r) == ~r.installed IN SelectSeq(repos, Keep)

\* lines 341-342: the repos upgrade upgrades
Upgradable(repos) == SelectSeq(repos, update_avail)

\* lines 182-185: the positions in the catalog of the repos list reports
UpdatesOf(repos) ==
    SelectSeq([i \in 1..Len(repos) |-> i], LAMBDA i : update_avail(repos[i]))

\* a batch command: the list is read once, then install runs on each
Batch(action, exist_ok, r, names) ==
    IF r.err # "" THEN EndError(action, r.err, <<"">>)
    ELSE IF names = <<>> THEN EndOk(action)
    ELSE /\ pc' = "install"
         /\ cmd' = EnterInstall(action, Head(names), exist_ok, Tail(names), fs,
                                0, NoLast)
         /\ result' = NoResult

\* install all, lines 332-336
CmdInstallAll ==
    /\ Start
    /\ report' = NoReport
    /\ LET r == read_pkg_repos(catalog, fs, <<>>)
       IN  Batch("install_all", FALSE, r, PkgNames(NotInstalled(r.repos)))
    /\ UNCHANGED <<catalog, fs, cache, remote, perm>>

\* upgrade, lines 340-345
CmdUpgradeAll ==
    /\ Start
    /\ report' = NoReport
    /\ LET r == read_pkg_repos(catalog, fs, <<>>)
       IN  Batch("upgrade_all", TRUE, r, PkgNames(Upgradable(r.repos)))
    /\ UNCHANGED <<catalog, fs, cache, remote, perm>>

\* list, lines 179-201: the updates are printed, then the folder is scanned
CmdList ==
    /\ Start
    /\ LET r    == read_pkg_repos(catalog, fs, <<>>)
           scan == get_installed_exts(fs)
       IN  IF r.err # "" THEN EndError("list", r.err, <<"">>) /\ report' = NoReport
           ELSE IF scan.err
                THEN /\ EndError("list", "Validation", <<"">>)
                     /\ report' = [NoReport EXCEPT
                                     !.upgradable = UpdatesOf(r.repos)]
           ELSE /\ EndOk("list")
                /\ report' = [done |-> TRUE,
                              upgradable |-> UpdatesOf(r.repos),
                              installed |-> scan.metas,
                              local_only |-> local_only(scan.metas, r.repos)]
    /\ UNCHANGED <<catalog, fs, cache, remote, perm>>

\* update, lines 169-176: the download replaces extensions.json, or fails
CmdUpdate ==
    /\ Start
    /\ report' = NoReport
    /\ \/ /\ \E c \in Catalogs \ {catalog} : catalog' = c
          /\ EndOk("update")
       \/ /\ catalog' = catalog
          /\ EndError("update", "External", <<"">>)
    /\ UNCHANGED <<fs, cache, remote, perm>>

\* clean, lines 349-355: the whole scratch cache is removed
CmdClean ==
    /\ Start
    /\ report' = NoReport
    /\ cache' = [n \in DirNames |-> NoScratch]
    /\ EndOk("clean")
    /\ UNCHANGED <<catalog, fs, remote, perm>>

\* between two commands, a push to a source repository
RemoteChange ==
    /\ Start
    /\ report' = NoReport
    /\ \/ \E refs \in RemoteFoo \ {remote["foo"]} :
              remote' = [remote EXCEPT !["foo"] = refs]
       \/ \E refs \in RemoteExt \ {remote["ext"]} :
              remote' = [remote EXCEPT !["ext"] = refs]
    /\ result' = NoResult
    /\ UNCHANGED <<catalog, fs, cache, pc, cmd, perm>>

\* between two commands, the user changes a directory of the folder by hand
UserWrite ==
    /\ Start
    /\ report' = NoReport
    /\ \E n \in DirNames :
          \E d \in UserDirs \ {fs[n]} : fs' = [fs EXCEPT ![n] = d]
    /\ result' = NoResult
    /\ UNCHANGED <<catalog, cache, remote, pc, cmd, perm>>

Next ==
    \/ \E p \in DirNames : CmdInstall(p)
    \/ \E p \in DirNames : CmdUpgrade(p)
    \/ CmdInstallAll
    \/ CmdUpgradeAll
    \/ CmdList
    \/ CmdUpdate
    \/ CmdClean
    \/ RemoteChange
    \/ UserWrite
    \/ InstallBegin
    \/ CloneOrFetch
    \/ Checkout
    \/ CachedMeta
    \/ Copy
    \/ Verify
    \/ PermStart
    \/ Chown

Spec == Init /\ [][Next]_vars

(***************************************************************************)
(* Properties.  Cur is the install that is running or, between commands,   *)
(* the one the last command ended in; InstallOps are its operations.       *)
(***************************************************************************)
Cur == IF pc = "idle" THEN result.cmd ELSE cmd

IsInstall ==
    /\ Cur.action \in {"install", "upgrade", "install_all", "upgrade_all"}
    /\ Cur.pkg \in DirNames

InstallOps == SubSeq(ops, Cur.from + 1, Len(ops))

OpsOf(kind) == SelectSeq(InstallOps, LAMBDA o : o.op = kind)

Ended == pc = "idle"

StepOneFailed ==
    \E i \in 1..Len(InstallOps) :
        InstallOps[i].op \in {"clone", "fetch"} /\ InstallOps[i].rc # 0

AllCandidatesFailed ==
    /\ Len(OpsOf("checkout")) = 5
    /\ \A i \in 1..5 : OpsOf("checkout")[i].rc # 0

CachedDescriptorInvalid ==
    \E i \in 1..Len(InstallOps) :
        InstallOps[i].op = "read_cached_meta" /\ InstallOps[i].rc # 0

\* C1: an install whose clone or fetch failed, or whose five checkouts all
\* failed, or whose scratch descriptor is invalid, has ended in an error with
\* the target directory as it was on entry and with no copy started.
C1_AbortBeforeCopy ==
    (IsInstall /\ (StepOneFailed \/ AllCandidatesFailed \/ CachedDescriptorInvalid))
    => /\ Ended /\ result.status = "error"
       /\ OpsOf("copy") = <<>>
       /\ fs[Cur.pkg] = Cur.before

\* an install of an existing directory ended on an invalid scratch descriptor
C1_Witness ==
    /\ Ended /\ IsInstall /\ CachedDescriptorInvalid
    /\ Cur.before.kind = "dir"
    /\ fs[Cur.pkg] = Cur.before

\* C2: the checkouts of an install are the candidates v{version}, {version},
\* origin/{version}, origin/v{version}, origin/HEAD in this order, none is
\* made after one that succeeded, and the install ends in a version
\* resolution error exactly when all five failed.
C2_CandidateOrder ==
    IsInstall =>
        LET co  == OpsOf("checkout")
            ver == py_format(Cur.repo.version)
            expected == << Ref("v", ver), Ref("", ver), Ref("origin/", ver),
                           Ref("origin/v", ver), Ref("origin/HEAD", "") >>
        IN  /\ Len(co) <= 5
            /\ \A j \in 1..Len(co) : co[j].ref = expected[j]
            /\ \A j \in 1..(Len(co) - 1) : co[j].rc # 0
            /\ Ended => ((result.err = "VersionResolution")
                          <=> (Len(co) = 5 /\ \A j \in 1..5 : co[j].rc # 0))

\* an install that succeeded on origin/HEAD after four failed checkouts
C2_Witness ==
    /\ Ended /\ IsInstall /\ result.status = "ok"
    /\ Len(OpsOf("checkout")) = 5
    /\ OpsOf("checkout")[5].rc = 0
    /\ OpsOf("checkout")[5].ref = HEAD

\* C3 (as claimed): the i-th ownership change of an install sets owner and
\* group to the i-th candidate web-server account, and none follows one that
\* succeeded.
C3_ChownTargetsCandidates ==
    IsInstall =>
        LET ch == OpsOf("chown")
        IN  /\ \A i \in 1..Len(ch) : ch[i].user = COMMON_WEB_SERVER_USERS[i]
            /\ \A i \in 1..(Len(ch) - 1) : ch[i].rc # 0

\* the number of catalog entries whose package name is p
MatchCount(p) ==
    Cardinality({i \in 1..Len(catalog.extensions) :
        generate_pkg_name(catalog.extensions[i].url,
                          catalog.extensions[i].directory) = p})

\* the catalog loaded when the running install read it
CatalogLoaded ==
    /\ \E i \in 1..Len(InstallOps) : InstallOps[i].op = "read_catalog"
    /\ read_pkg_repos(catalog, [fs EXCEPT ![Cur.pkg] = Cur.before], <<>>).err
           \in {"", "NotFound"}

GitOrCopyOps ==
    SelectSeq(InstallOps,
              LAMBDA o : o.op \in {"clone", "fetch", "checkout", "copy"})

\* C4 (as claimed): with no entry or several entries of the package in the
\* loaded catalog, install ends in a not-found error without clone, fetch,
\* checkout or copy.
C4_ExactlyOneEntry ==
    (IsInstall /\ CatalogLoaded /\ MatchCount(Cur.pkg) # 1)
    => /\ Ended /\ result.err = "NotFound"
       /\ GitOrCopyOps = <<>>

\* C5: install(pkg, exist_ok=False) of a target that holds a descriptor ends
\* in an already-installed error with no operation made and the target and
\* the scratch clone as they were; with exist_ok=True it never ends so.
C5_AlreadyInstalledPrecondition ==
    (IsInstall /\ pc # "install") =>
        /\ (~Cur.exist_ok /\ Exists(Cur.before, EXT_META))
           => /\ Ended /\ result.err = "AlreadyInstalled"
              /\ InstallOps = <<>>
              /\ fs[Cur.pkg] = Cur.before
              /\ cache[Cur.pkg] = Cur.cache0
        /\ Cur.exist_ok => ~(Ended /\ result.err = "AlreadyInstalled")

\* an install refused because the target holds a descriptor
C5_Witness ==
    /\ Ended /\ IsInstall /\ ~Cur.exist_ok
    /\ Exists(Cur.before, EXT_META)
    /\ result.err = "AlreadyInstalled"

Verified ==
    \E i \in 1..Len(InstallOps) :
        InstallOps[i].op = "read_meta" /\ InstallOps[i].rc = 0

\* C6 (as claimed): an install that read back a valid descriptor from the
\* target directory ends successful, whatever set_permissions meets, with
\* the files of the target directory as verified.
C6_PermissionFailureNotFatal ==
    (Ended /\ IsInstall /\ Verified)
    => /\ result.status = "ok"
       /\ Content(fs[Cur.pkg]) = Cur.verified

\* the descriptors of the directories whose descriptor file parses
ValidMetas(fsys) ==
    LET Valid(n) == Exists(fsys[n], EXT_META) /\ Metadata(fsys[n].meta).ok
        dirs == SelectSeq(DirOrder, Valid)
    IN  [i \in 1..Len(dirs) |-> Metadata(fsys[dirs[i]].meta)]

ListEnded ==
    /\ Ended /\ result.cmd.action = "list"
    /\ read_pkg_repos(catalog, fs, <<>>).err = ""

\* C7 (as claimed): the scan of list returns the descriptors of all the
\* directories whose descriptor is valid, skipping the invalid ones.
C7_ScanSkipsInvalid ==
    ListEnded => /\ report.done
                 /\ report.installed = ValidMetas(fs)

\* C8 (as claimed): list reports a catalog entry as upgradable exactly when it
\* is installed and the string forms of the version in its local descriptor
\* and of its catalog version differ.
C8_UpgradableIffVersionsDiffer ==
    ListEnded =>
        \A i \in 1..Len(catalog.extensions) :
            LET e == catalog.extensions[i]
                d == fs[generate_pkg_name(e.url, e.directory)]
            IN  (\E j \in 1..Len(report.upgradable) : report.upgradable[j] = i)
                <=> /\ set_installed_flag(d)
                    /\ py_format(d.meta.version) # py_format(e.version)

\* a successful install(pkg, exist_ok=False) of a target that did not exist
FreshInstallDone ==
    /\ Ended /\ IsInstall /\ result.status = "ok"
    /\ ~Cur.exist_ok
    /\ Cur.before.kind = "none"

CandidateRefs ==
    LET ver == py_format(Cur.repo.version)
    IN  << Ref("v", ver), Ref("", ver), Ref("origin/", ver),
           Ref("origin/v", ver), Ref("origin/HEAD", "") >>

\* the ref of the last checkout of the install
CheckedOutRef == OpsOf("checkout")[Len(OpsOf("checkout"))].ref

\* C9 (as claimed): such an install cloned, checked out a ref named after the
\* catalog version, copied, and read back a descriptor whose version is the
\* catalog version.
C9_VersionIsCatalogVersion ==
    FreshInstallDone
    => /\ \E i \in 1..Len(InstallOps) :
              InstallOps[i].op = "clone" /\ InstallOps[i].rc = 0
       /\ CheckedOutRef.v = py_format(Cur.repo.version)
       /\ OpsOf("copy") # <<>>
       /\ Cur.meta.version = Cur.repo.version

\* C9 (amended): such an install cloned when no scratch clone existed and
\* fetched otherwise, checked out the first candidate that exists (of the
\* source repository after a clone, of the scratch clone after a fetch),
\* copied the directory of that ref into the target, and read back the
\* descriptor of that directory.
C9_FreshInstall ==
    FreshInstallDone
    => LET refs == IF Cur.cache0.config THEN cache[Cur.pkg].refs
                   ELSE remote[Cur.repo.url.repo]
           k    == Len(OpsOf("checkout"))
           src  == SubTree(RefTree(refs, CheckedOutRef), Cur.repo.directory)
       IN  /\ \E i \in 1..Len(InstallOps) :
                  /\ InstallOps[i].op = (IF Cur.cache0.config THEN "fetch" ELSE "clone")
                  /\ InstallOps[i].rc = 0
           /\ k \in 1..5
           /\ CheckedOutRef = CandidateRefs[k]
           /\ RefTree(refs, CandidateRefs[k]) # ""
           /\ \A j \in 1..(k - 1) : RefTree(refs, CandidateRefs[j]) = ""
           /\ OpsOf("copy") = << Op("copy", Cur.pkg, NoRef, "", 0) >>
           /\ Content(fs[Cur.pkg]) = Content(src)
           /\ Cur.meta = Metadata(src.meta)

\* a fresh install that fell back to origin/HEAD and read back a version that
\* is not the catalog's
C9_Witness ==
    /\ FreshInstallDone
    /\ CheckedOutRef = HEAD
    /\ Cur.meta.version # Cur.repo.version

\* C10: an install with exist_ok=True that follows, with nothing in between,
\* a successful install of the same package leaves the files of the target
\* directory as the first left them and, when it succeeds, reads back the
\* same descriptor.
C10_InstallIdempotent ==
    (Ended /\ IsInstall /\ Cur.exist_ok /\ Cur.prev.valid)
    => /\ Content(fs[Cur.pkg]) = Cur.prev.dir
       /\ result.status = "ok" => Cur.meta = Cur.prev.meta

\* two successful installs in a row with exist_ok=True, the second having
\* fetched and copied again
C10_Witness ==
    /\ Ended /\ IsInstall /\ result.status = "ok"
    /\ Cur.exist_ok /\ Cur.prev.valid /\ Cur.prev.exist_ok
    /\ OpsOf("fetch") # <<>>
    /\ OpsOf("copy") # <<>>

\* the files a directory can hold
FileNames == {EXT_META, EXT_MAIN, "other"}

\* the content of file f of directory d
FileOf(d, f) ==
    CASE f = EXT_META -> d.meta
      [] f = EXT_MAIN -> d.main
      [] OTHER -> d.extra

\* the copy of the running install returned
Copied ==
    \E i \in 1..Len(InstallOps) : InstallOps[i].op = "copy" /\ InstallOps[i].rc = 0

\* the directory the running install copied from
CopySource == SubTree(cache[Cur.pkg].wt, Cur.repo.directory)

\* C11: once the copy of an install returned, every file of the checked-out
\* sourceSubdirectory is in the target directory with the content of the
\* source, and every file the target held on entry that the source does not
\* have is still there with the content it had.
C11_CopyIsMerge ==
    (IsInstall /\ Copied) =>
        /\ fs[Cur.pkg].kind = "dir"
        /\ \A f \in FileNames :
              IF Exists(CopySource, f)
              THEN FileOf(fs[Cur.pkg], f) = FileOf(CopySource, f)
              ELSE FileOf(fs[Cur.pkg], f) = FileOf(Cur.before, f)

\* a copy that replaced one file by a different one and left, beside it, a
\* file that the source tree does not have
C11_Witness ==
    /\ IsInstall /\ Copied
    /\ \E f \in FileNames :
          /\ Exists(CopySource, f) /\ Exists(Cur.before, f)
          /\ FileOf(CopySource, f) # FileOf(Cur.before, f)
    /\ \E f \in FileNames :
          /\ ~Exists(CopySource, f) /\ Exists(Cur.before, f)
          /\ Exists(fs[Cur.pkg], f)

\* what read_pkg_repos(pkg) gave the running install: the folder was then as
\* it is, but for the target directory
EntryRead ==
    read_pkg_repos(catalog, [fs EXCEPT ![Cur.pkg] = Cur.before], Cur.pkg)

\* the running install passed its precondition and found its catalog entry
EntryResolved ==
    /\ IsInstall /\ pc # "install"
    /\ OpsOf("read_catalog") # <<>>
    /\ EntryRead.err = ""

\* C12: an install whose catalog entry has a fetch method other than git has
\* ended in an unsupported-method error with no clone, fetch, checkout or
\* copy made and with the scratch clone and the target directory as they
\* were on entry.
C12_UnsupportedMethod ==
    (EntryResolved /\ EntryRead.repos[1].method # "git")
    => /\ Ended /\ result.status = "error" /\ result.err = "UnsupportedMethod"
       /\ GitOrCopyOps = <<>>
       /\ cache[Cur.pkg] = Cur.cache0
       /\ fs[Cur.pkg] = Cur.before

\* an upgrade of an existing directory refused for its entry's zip method
C12_Witness ==
    /\ EntryResolved /\ Ended
    /\ EntryRead.repos[1].method = "zip"
    /\ result.err = "UnsupportedMethod"
    /\ Cur.before.kind = "dir"

\* the last command loaded the catalog: list, a batch command, or an install
\* that got past its precondition
CatalogRead ==
    /\ Ended
    /\ \/ result.cmd.action \in {"list", "install_all", "upgrade_all"}
       \/ IsInstall /\ OpsOf("read_catalog") # <<>>

\* C13: a command that loads a catalog whose format version is not 0.1 ends
\* in a schema-version error, whatever the entries are and whatever the
\* folder holds: no entry was constructed, and nothing was cloned, fetched,
\* checked out or copied.
C13_SchemaVersionFirst ==
    (CatalogRead /\ catalog.present /\ catalog.version # "0.1")
    => /\ result.status = "error" /\ result.err = "SchemaVersion"
       /\ read_pkg_repos(catalog, fs, Cur.pkg).parsed = 0
       /\ read_pkg_repos(catalog, fs, <<>>).repos = <<>>
       /\ GitOrCopyOps = <<>>

\* a catalog of format 0.2 was refused although an entry of it, had it been
\* constructed, would have failed on the descriptor of its directory
C13_Witness ==
    /\ CatalogRead /\ catalog.present /\ catalog.version = "0.2"
    /\ result.err = "SchemaVersion"
    /\ \E i \in 1..Len(catalog.extensions) : ~Repo(catalog.extensions[i], fs).ok

BatchActions == {"install_all", "upgrade_all"}

\* the package name of each entry of the catalog, in the order of the file
CatalogNames ==
    [i \in 1..Len(catalog.extensions) |->
        generate_pkg_name(catalog.extensions[i].url,
                          catalog.extensions[i].directory)]

\* s lists, in the order of t, elements at distinct positions of t
InOrderOf(s, t) ==
    \E f \in [1..Len(s) -> 1..Len(t)] :
        /\ \A i \in 1..Len(s) : t[f[i]] = s[i]
        /\ \A i \in 1..(Len(s) - 1) : f[i] < f[i + 1]

\* the packages whose install, earlier in the running batch, read back a
\* valid descriptor
DoneBefore ==
    {ops[i].pkg : i \in {j \in 1..cmd.from :
                            ops[j].op = "read_meta" /\ ops[j].rc = 0}}

\* one step of a batch command
BatchStep ==
    \* the packages to process are taken in the order of the catalog
    /\ (pc = "idle" /\ cmd'.action \in BatchActions)
       => InOrderOf(<<cmd'.pkg>> \o cmd'.queue, CatalogNames)
    \* an operation is made for the package being processed only
    /\ (cmd.action \in BatchActions /\ Len(ops') > Len(ops))
       => /\ ops'[Len(ops')].pkg = cmd.pkg
          /\ \A q \in DirNames \ {cmd.pkg} : fs'[q] = fs[q] /\ cache'[q] = cache[q]
    \* the next package is started when the install of this one returned
    /\ (cmd.action \in BatchActions /\ cmd'.action \in BatchActions /\ pc' = "install")
       => /\ result'.status = "ok" /\ result'.cmd = cmd
          /\ cmd'.pkg = Head(cmd.queue) /\ cmd'.queue = Tail(cmd.queue)
    \* a failure ends the command, with the packages left unprocessed and the
    \* packages installed before still installed
    /\ (cmd.action \in BatchActions /\ result'.status = "error" /\ result'.cmd = cmd)
       => /\ pc' = "idle" /\ cmd' = NoCmd
          /\ \A q \in DirNames \ {cmd.pkg} : fs'[q] = fs[q] /\ cache'[q] = cache[q]
          /\ \A q \in DoneBefore : read_local_meta(fs'[q]).ok

\* C14: install all and upgrade process their packages one at a time in the
\* order of the catalog; when the install of one package fails the command
\* ends, no operation being made for the packages after it, and the
\* packages installed before it stay installed.
C14_BatchAbortsOnFailure == [][BatchStep]_vars

\* a batch command ended on the failure of a package, after it had begun to
\* clone or fetch, with another package left to process
C14_Witness ==
    /\ Ended /\ result.status = "error"
    /\ result.cmd.action \in BatchActions
    /\ result.cmd.queue # <<>>
    /\ Len(ops) > 1
    /\ \A i \in 1..Len(ops) : ops[i].pkg = result.cmd.pkg

\* what set_permissions found in the running install: the account is a
\* web-server account, the effective uid is 0, sudo -n whoami returned 0
RanAsWebUser ==
    /\ OpsOf("whoami") # <<>>
    /\ is_common_web_server_user(OpsOf("whoami")[1].user)

RanAsRoot == OpsOf("geteuid") # <<>> /\ OpsOf("geteuid")[1].rc = 0

RanWithSudo ==
    \E i \in 1..Len(InstallOps) : InstallOps[i].op = "sudo" /\ InstallOps[i].rc = 0

\* C15 (as claimed): an install run by a web-server account makes no
\* ownership change and leaves the owner of the target as it was; an install
\* run by another account that is not root and has no passwordless sudo
\* makes none either and ends successful with the manual-intervention
\* message.
C15_FirstMatchWins ==
    (IsInstall /\ OpsOf("whoami") # <<>>) =>
        /\ RanAsWebUser
           => /\ OpsOf("chown") = <<>>
              /\ fs[Cur.pkg].owner = Cur.before.owner
        /\ (~RanAsWebUser /\ ~RanAsRoot /\ ~RanWithSudo /\ Ended)
           => /\ OpsOf("chown") = <<>>
              /\ result.status = "ok" /\ result.advice = "manual"

\* the phase of install an operation belongs to: 0 the catalog lookup,
\* 1 Cloned or Fetched, 2 CheckedOut (the checkouts and the read of the
\* scratch descriptor), 3 Copied, 4 Verified, 5 PermissionsReconciled
Phase(o) ==
    CASE o.op = "read_catalog" -> 0
      [] o.op \in {"clone", "fetch"} -> 1
      [] o.op \in {"checkout", "read_cached_meta"} -> 2
      [] o.op = "copy" -> 3
      [] o.op = "read_meta" -> 4
      [] OTHER -> 5

\* b can follow a in one install
Follows(a, b) ==
    \/ /\ Phase(b) = Phase(a) + 1 /\ a.rc = 0
       /\ a.op # "checkout"
       /\ Phase(b) = 5 => b.op = "geteuid"
    \/ a.op = "checkout" /\ b.op = "checkout" /\ a.rc # 0
    \/ a.op = "checkout" /\ b.op = "read_cached_meta" /\ a.rc = 0
    \/ a.op = "geteuid" /\ b.op = "whoami"
    \/ a.op = "whoami" /\ b.op = "sudo"
    \/ a.op = "sudo" /\ b.op = "chown"
    \/ a.op = "chown" /\ b.op = "chown" /\ a.rc # 0

RereadFailed ==
    \E i \in 1..Len(InstallOps) :
        InstallOps[i].op = "read_meta" /\ InstallOps[i].rc # 0

\* C16: the operations of an install follow the phases in order, each phase
\* beginning only after the one before it succeeded, so that set_permissions
\* runs only after the descriptor of the target was read back; and an
\* install whose read-back failed has ended in an error with the copied
\* files in the target directory and no ownership change attempted.
C16_PhaseOrder ==
    IsInstall =>
        /\ InstallOps # <<>> => InstallOps[1].op = "read_catalog"
        /\ \A i \in 1..(Len(InstallOps) - 1) :
              Follows(InstallOps[i], InstallOps[i + 1])
        /\ RereadFailed
           => /\ Ended /\ result.status = "error"
              /\ OpsOf("geteuid") = <<>> /\ OpsOf("whoami") = <<>>
              /\ OpsOf("sudo") = <<>> /\ OpsOf("chown") = <<>>
              /\ Content(fs[Cur.pkg]) = Content(MergeCopy(Cur.before, CopySource))
              /\ fs[Cur.pkg].owner = Cur.before.owner

\* an install ended on the read-back of the descriptor, the copy having
\* changed the target directory
C16_Witness ==
    /\ IsInstall /\ Ended /\ Copied /\ RereadFailed
    /\ Content(fs[Cur.pkg]) # Content(Cur.before)

\* the clone or fetch of the running install
StepOne == SelectSeq(InstallOps, LAMBDA o : o.op \in {"clone", "fetch"})

\* C17 (as claimed): step 1 of an install is a clone when the package has no
\* scratch directory and a fetch when it has one, what an interrupted clone
\* left behind included, so that the leftover never stands in the way of
\* step 1 (git clone refuses a destination that exists and is not empty).
C17_CloneIffAbsent ==
    (IsInstall /\ StepOne # <<>>) =>
        /\ Len(StepOne) = 1
        /\ StepOne[1].op = "clone" <=> Cur.cache0.state = "absent"
        /\ StepOne[1].op = "fetch" <=> Cur.cache0.state # "absent"

\* an install all ended in an already-installed error
InstallAllRefused ==
    /\ Ended /\ result.cmd.action = "install_all"
    /\ result.err = "AlreadyInstalled"

\* C18 (as claimed): for every catalog entry the installed flag is false
\* exactly when install(pkg, exist_ok=False) passes its precondition, and
\* install all never ends in an already-installed error.
C18_InstalledNotionsAgree ==
    /\ \A i \in 1..Len(catalog.extensions) :
          LET d == fs[CatalogNames[i]]
          IN  ~set_installed_flag(d) <=> ~AlreadyInstalled(FALSE, d)
    /\ ~InstallAllRefused

\* the running package was installed earlier in the same batch
InstalledEarlierInBatch ==
    \E j \in 1..Cur.from : ops[j].op = "copy" /\ ops[j].pkg = Cur.pkg

\* C18 (amended): an entry whose installed flag is true fails the
\* precondition of install(pkg, exist_ok=False), but not conversely.  Each
\* install of install all is refused exactly when its target holds a
\* descriptor, and this happens only for a target that holds a descriptor
\* without the main file, or that an earlier entry of the same package
\* name has filled in the same batch.
C18_FlagImpliesRefusal ==
    /\ \A i \in 1..Len(catalog.extensions) :
          LET d == fs[CatalogNames[i]]
          IN  set_installed_flag(d) => AlreadyInstalled(FALSE, d)
    /\ (IsInstall /\ Cur.action = "install_all" /\ pc # "install")
       => /\ (Ended /\ result.err = "AlreadyInstalled")
             <=> Exists(Cur.before, EXT_META)
          /\ Exists(Cur.before, EXT_META)
             => \/ ~Exists(Cur.before, EXT_MAIN)
                \/ InstalledEarlierInBatch

\* install all refused, as its first package, a directory that holds a
\* descriptor and no main file
C18_Witness ==
    /\ InstallAllRefused
    /\ Cur.from = 0
    /\ Exists(Cur.before, EXT_META) /\ ~Exists(Cur.before, EXT_MAIN)
    /\ fs[Cur.pkg] = Cur.before

\* C19 (as claimed): upgrade <pkg> of a package that has a catalog entry and
\* whose installed flag is false ends in a not-installed error without
\* clone, fetch, checkout or copy.
C19_UpgradeOnlyInstalled ==
    (Cur.action = "upgrade" /\ Cur.pkg \in DirNames /\ pc # "install"
       /\ catalog.present /\ MatchCount(Cur.pkg) >= 1
       /\ ~set_installed_flag(Cur.before))
    => /\ Ended /\ result.status = "error" /\ result.err = "NotInstalled"
       /\ GitOrCopyOps = <<>>

\* directory d holds exactly the files of entry e's sourceSubdirectory in
\* some tree of the source repository, as an install of e leaves it
InstalledFromSource(e, d) ==
    \E t \in TreeNames : Content(d) = Content(SubTree(t, e.directory))

\* C20 (as claimed): in the report of list, the descriptor of a directory
\* that an install filled from the source and that makes a catalog entry
\* installed is not among the local-only extensions.
C20_NoDoubleCount ==
    (Ended /\ result.cmd.action = "list" /\ report.done) =>
        \A i \in 1..Len(catalog.extensions) :
            LET d == fs[CatalogNames[i]]
            IN  (set_installed_flag(d)
                   /\ InstalledFromSource(catalog.extensions[i], d))
                => ~\E j \in 1..Len(report.local_only) :
                       report.local_only[j] = Metadata(d.meta)

====
